---- MODULE Spec2Model ----
(***************************************************************************)
(* Model of the DeleteUndefined function pass (src/src/DeleteUndefined.cpp) *)
(* A module holds the functions main and f; every body is a list of        *)
(* instructions closed by a terminator.  The pass manager applies           *)
(* runOnFunction to every defined function, in any order; a run may be      *)
(* followed by a run of a fresh pass instance over the output.              *)
(***************************************************************************)
EXTENDS Integers, Sequences, FiniteSets, TLC

\* ------------------------------------------------------------------ bounds
\* instructions of a module besides the terminators
MaxInstrs == 3
\* runs of the pass (pass instances) over the module in one process
MaxRuns == 2

\* ------------------------------------------------------------------ names
Void == "void"
Types == {"i32", "i64"}
Null == "null"
End == 0

VerifierPrefix == "__VERIFIER_"
MakeSymbolicName == <<VerifierPrefix, "make_symbolic">>

\* a name is a list of tokens; the prefixes the pass tests are tokens
equals(name, s) == name = s
\* mutant: no name has the prefix
startswith_never(name, p) == FALSE
startswith(name, p) == Len(name) >= 1 /\ name[1] = p

leave_calls ==
  << <<"__assert_fail">>, <<"abort">>, <<"klee_make_symbolic">>,
     <<"klee_assume">>, <<"klee_abort">>, <<"klee_silent_exit">>,
     <<"klee_report_error">>, <<"klee_warning_once">>, <<"exit">>,
     <<"_exit">>, <<"malloc">>, <<"calloc">>, <<"realloc">>, <<"free">>,
     <<"memset">>, <<"memcmp">>, <<"memcpy">>, <<"memmove">>, <<"kzalloc">>,
     <<"__errno_location">> >>

\* mutant: the list is never consulted
array_match_never(name, array) == FALSE

array_match(name, array) == \E i \in 1..Len(array) : equals(name, array[i])

PointerSizeInBits == 64

TypeAllocSize(ty) == IF ty = "i32" THEN 4 ELSE 8

\* ------------------------------------------------------------------ values
InstOp(id) == [k |-> "inst", n |-> id, ty |-> ""]
NullValue(ty) == [k |-> "zero", n |-> 0, ty |-> ty]
GlobOp(g) == [k |-> "glob", n |-> g, ty |-> ""]
ConstOp(c, ty) == [k |-> "const", n |-> c, ty |-> ty]

\* ------------------------------------------------------------------ modules
\* the call sites a module is built from: callee, result type, takes an
\* argument (the nearest value computed before it, or a constant)
Kinds == {"foo", "baz", "log", "free", "assume"}
\* the call sites of the modules that hold the calls the pass passes over:
\* inline assembly, a callee that is no function, an intrinsic, a callee
\* with a body, and one undefined callee
SkipKinds == {"asm", "icall", "intr", "callf", "baz"}

\* op: "call" for a call of a named function, "asm" for a call of inline
\* assembly, "icall" for a call whose callee is no function; decl: the callee
\* is a function of the module without a body
KindOf(k) ==
  CASE k = "foo"    -> [op |-> "call", callee |-> <<"foo">>, ty |-> "i32",
                        arg |-> FALSE, decl |-> TRUE]
    [] k = "baz"    -> [op |-> "call", callee |-> <<"baz">>, ty |-> "i64",
                        arg |-> TRUE, decl |-> TRUE]
    [] k = "log"    -> [op |-> "call", callee |-> <<"log_undefined">>, ty |-> Void,
                        arg |-> FALSE, decl |-> TRUE]
    [] k = "free"   -> [op |-> "call", callee |-> <<"free">>, ty |-> Void,
                        arg |-> TRUE, decl |-> TRUE]
    [] k = "assume" -> [op |-> "call", callee |-> <<VerifierPrefix, "assume">>,
                        ty |-> Void, arg |-> TRUE, decl |-> TRUE]
    [] k = "asm"    -> [op |-> "asm", callee |-> <<>>, ty |-> "i32",
                        arg |-> TRUE, decl |-> FALSE]
    [] k = "icall"  -> [op |-> "icall", callee |-> <<>>, ty |-> "i32",
                        arg |-> TRUE, decl |-> FALSE]
    [] k = "intr"   -> [op |-> "call", callee |-> <<"llvm.", "ctpop">>, ty |-> "i32",
                        arg |-> TRUE, decl |-> TRUE]
    [] k = "callf"  -> [op |-> "call", callee |-> <<"f">>, ty |-> "i32",
                        arg |-> TRUE, decl |-> FALSE]

RECURSIVE Build(_, _, _)
Build(ks, id, last) ==
  IF ks = <<>>
  THEN << [id |-> id, op |-> "ret", callee |-> <<>>, ty |-> Void, args |-> <<last>>] >>
  ELSE LET k == KindOf(Head(ks))
           ins == [id |-> id, op |-> k.op, callee |-> k.callee, ty |-> k.ty,
                   args |-> IF k.arg THEN <<last>> ELSE <<>>]
       IN <<ins>> \o Build(Tail(ks), id + 1, IF k.ty # Void THEN InstOp(id) ELSE last)

FuncNames == {"main", "f"}

\* ------------------------------------------------------------------ state
VARIABLES
  mainShape,       \* "defined", "declared" or "absent": main in the module
  body,            \* function name -> its instructions in program order
  decls,           \* names of the functions of the module that have no body
  globals,         \* the module's global variables, in creation order
  nextId,          \* identity of the next instruction created
  _nosym, _vms, _size_t_Ty, added_globals,    \* the pass instance
  removed_calls,   \* the static set of runOnFunction
  errs,            \* the diagnostic stream
  pc, F, I, ins, modified,                    \* the scan in progress
  run, scanned, ret,                          \* the pass manager
  requested,       \* history: types getGlobalNondet was asked for, this run
  elim,            \* history: the call sites erased so far
  pre,             \* history: pre[r] is the module when run r began
  start,           \* history: the instructions of F when its scan began
  visited          \* history: the instructions the scan of F dereferenced

vars == <<mainShape, body, decls, globals, nextId, _nosym, _vms, _size_t_Ty,
          added_globals, removed_calls, errs, pc, F, I, ins, modified, run,
          scanned, ret, requested, elim, pre, start, visited>>

Defined == {"f"} \cup (IF mainShape = "defined" THEN {"main"} ELSE {})

\* ------------------------------------------------------------------ lists
Range(s) == {s[i] : i \in 1..Len(s)}
Ids(b) == {b[i].id : i \in 1..Len(b)}
IndexOf(b, id) == CHOOSE i \in 1..Len(b) : b[i].id = id
InstOf(b, id) == b[IndexOf(b, id)]

\* inst_begin(F): the first instruction of F, or inst_end(F)
inst_begin(b) == IF b = <<>> THEN End ELSE b[1].id

\* ++I, for an iterator I that points at the instruction id of b
Advance(b, id) ==
  LET i == IndexOf(b, id) IN IF i = Len(b) THEN End ELSE b[i + 1].id

\* new->insertBefore(at), for a list of new instructions
insertBefore(b, at, new) ==
  LET i == IndexOf(b, at)
  IN SubSeq(b, 1, i - 1) \o new \o SubSeq(b, i, Len(b))

\* ins->eraseFromParent()
eraseFromParent(b, id) == SelectSeq(b, LAMBDA x : x.id # id)

\* the operands that refer to the result of instruction id: <<user, index>>
UsesIn(b, id) ==
  UNION {{<<b[i].id, j>> : j \in {k \in 1..Len(b[i].args) : b[i].args[k] = InstOp(id)}} :
         i \in 1..Len(b)}

\* mutant: only the first use in the list is redirected
replaceFirstUseWith(b, id, new) ==
  [i \in 1..Len(b) |->
     IF \E h \in 1..(i - 1) : InstOp(id) \in Range(b[h].args) THEN b[i]
     ELSE [b[i] EXCEPT !.args = [j \in 1..Len(@) |-> IF @[j] = InstOp(id) THEN new ELSE @[j]]]]

\* V->replaceAllUsesWith(new) within one function body
replaceAllUsesWith(b, id, new) ==
  [i \in 1..Len(b) |->
     [b[i] EXCEPT !.args = [j \in 1..Len(@) |-> IF @[j] = InstOp(id) THEN new ELSE @[j]]]]

\* ------------------------------------------------------------------ the pass
\* What the helpers of the pass read and write: the module and the fields of
\* the pass instance.  status is "ok" or "fatal"; result is the value returned.
PassState ==
  [body |-> body, decls |-> decls, globals |-> globals, nextId |-> nextId,
   _vms |-> _vms, _size_t_Ty |-> _size_t_Ty, added_globals |-> added_globals,
   requested |-> requested, status |-> "ok", result |-> 0]

get_size_t(st) ==
  IF st._size_t_Ty # Null THEN st
  ELSE [st EXCEPT !._size_t_Ty = IF PointerSizeInBits > 32 THEN "i64" ELSE "i32"]

get_verifier_make_symbolic(st) ==
  IF st._vms THEN st
  ELSE [get_size_t(st) EXCEPT !._vms = TRUE, !.decls = @ \cup {MakeSymbolicName}]

\* mutant: the two instructions are put after the first instruction of main
InsertAtEntry_afterFirst(b, new) == <<b[1]>> \o new \o Tail(b)

\* mutant: the two instructions are put at the end of main
InsertAtEntry_atEnd(b, new) == b \o new

\* CastI->insertBefore(&I); CI->insertBefore(&I), I the first instruction of
\* the first block of main
InsertAtEntry(b, new) == insertBefore(b, b[1].id, new)

\* mutant: the result of getFunction is not tested
MainFound_always == TRUE

\* M->getFunction("main") is not null (the assertion of line 181)
MainFound == mainShape # "absent"

\* mutant: the lookup always misses
Cached_never(added, Ty) == FALSE

\* added_globals.find(Ty) != added_globals.end()
Cached(added, Ty) == Ty \in DOMAIN added

\* A miss creates the global and caches it (lines 154-160), declares the hook,
\* creates the cast, the name string and the call (lines 164-178) and only then
\* looks for main.  Without main the assertion of line 181 stops the process.
\* With a main that has no block, front() and *block.begin() (lines 182-185)
\* are applied to empty lists: nothing checks this, the behaviour is undefined,
\* and ub is what the build makes of it: "crash" stops the process, "lost"
\* goes on with the two instructions linked into no function.
getGlobalNondet(st, Ty, ub) ==
  LET s0 == [st EXCEPT !.requested = @ \cup {Ty}] IN
  IF Cached(s0.added_globals, Ty)
  THEN [s0 EXCEPT !.result = s0.added_globals[Ty]]
  ELSE
    LET G == Len(s0.globals) + 1
        s1 == [s0 EXCEPT
                 !.globals = Append(@, [tag |-> "nondet_gl_undef", ty |-> Ty]),
                 !.added_globals = [t \in DOMAIN @ \cup {Ty} |->
                                      IF t = Ty THEN G ELSE @[t]]]
        s2 == get_size_t(get_verifier_make_symbolic(s1))
        nameG == Len(s2.globals) + 1
        s3 == [s2 EXCEPT !.globals = Append(@, [tag |-> "nondet", ty |-> "str"]),
                         !.nextId = @ + 2]
        CastI == [id |-> s2.nextId, op |-> "cast", callee |-> <<>>, ty |-> "i8*",
                  args |-> <<GlobOp(G)>>]
        CI == [id |-> s2.nextId + 1, op |-> "call", callee |-> MakeSymbolicName,
               ty |-> Void,
               args |-> <<InstOp(CastI.id), ConstOp(TypeAllocSize(Ty), s2._size_t_Ty),
                          GlobOp(nameG)>>]
    IN IF ~MainFound
       THEN [s3 EXCEPT !.status = "fatal"]
       ELSE IF s3.body["main"] = <<>>
       THEN IF ub = "crash" THEN [s3 EXCEPT !.status = "fatal"]
            ELSE [s3 EXCEPT !.result = G]
       ELSE [s3 EXCEPT !.body["main"] = InsertAtEntry(@, <<CastI, CI>>),
                       !.result = G]

\* the function whose body holds the instruction id
ParentOf(st, id) == CHOOSE fn \in FuncNames : id \in Ids(st.body[fn])

replaceCall(st, CI, ub) ==
  LET s1 == [st EXCEPT !.globals = Append(@, [tag |-> "nondet", ty |-> "str"])]
      s2 == getGlobalNondet(s1, CI.ty, ub)
      LI == [id |-> s2.nextId, op |-> "load", callee |-> <<>>, ty |-> CI.ty,
             args |-> <<GlobOp(s2.result)>>]
      fn == ParentOf(s2, CI.id)
  IN IF s2.status = "fatal" THEN s2
     ELSE [s2 EXCEPT
             !.nextId = @ + 1,
             !.body[fn] = replaceAllUsesWith(insertBefore(@, CI.id, <<LI>>),
                                             CI.id, InstOp(LI.id)),
             !.result = LI.id]

\* dyn_cast<CallInst>(ins)
IsCallInst(x) == x.op \in {"call", "asm", "icall"}
isInlineAsm(x) == x.op = "asm"
\* dyn_cast<Function>(CI->getCalledValue()->stripPointerCasts())
ResolvesToFunction(x) == x.op = "call"
isIntrinsic(name) == startswith(name, "llvm.")
isDeclaration(st, name) == name \in st.decls

\* mutant: calls without a result are left alone as well
Skips_void(st, x) ==
  \/ ~IsCallInst(x)
  \/ ~ResolvesToFunction(x)
  \/ array_match(x.callee, leave_calls)
  \/ startswith(x.callee, VerifierPrefix)
  \/ ~isDeclaration(st, x.callee)
  \/ x.ty = Void

\* mutant: only the names of the allow-list are left alone
Skips_allowListOnly(st, x) ==
  \/ ~IsCallInst(x)
  \/ array_match(x.callee, leave_calls)
  \/ startswith(x.callee, VerifierPrefix)

\* the call sites the loop leaves with `continue`, and the instructions that
\* are no calls or whose callee has a body
Skips(st, x) ==
  \/ ~IsCallInst(x)
  \/ isInlineAsm(x)
  \/ ~ResolvesToFunction(x)
  \/ isIntrinsic(x.callee)
  \/ equals(x.callee, <<"nondet_int">>)
  \/ equals(x.callee, <<"klee_int">>)
  \/ array_match(x.callee, leave_calls)
  \/ startswith(x.callee, VerifierPrefix)
  \/ ~isDeclaration(st, x.callee)

\* the tail of the line written to errs() for the first erased call of a callee
Message(ty, nosym) ==
  IF ty # Void
  THEN IF nosym THEN ", retval set to 0)" ELSE ", retval made symbolic)"
  ELSE ")"

\* mutant: a line for every erased call
Reports_always(removed, callee) == TRUE

\* removed_calls.insert(callee).second, and the line printed when it is true
Reports(removed, callee) == callee \notin removed

\* mutant: the policy flag is not consulted
Substitute_symbolic(st, CI, nosym, ub) ==
  IF CI.ty # Void THEN replaceCall(st, CI, ub) ELSE st

\* mutant: the result type is not consulted
Substitute_anytype(st, CI, nosym, ub) ==
  IF nosym
  THEN LET fn == ParentOf(st, CI.id)
       IN [st EXCEPT !.body[fn] = replaceAllUsesWith(@, CI.id, NullValue(CI.ty))]
  ELSE replaceCall(st, CI, ub)

\* lines 290-298: the substitute for the result of an eligible call
Substitute(st, CI, nosym, ub) ==
  IF CI.ty # Void
  THEN IF nosym
       THEN LET fn == ParentOf(st, CI.id)
            IN [st EXCEPT !.body[fn] = replaceAllUsesWith(@, CI.id, NullValue(CI.ty))]
       ELSE replaceCall(st, CI, ub)
  ELSE st

NoValue == [k |-> "none", n |-> 0, ty |-> ""]

\* ------------------------------------------------------------------ actions
Snapshot(b, g, d) == [body |-> b, globals |-> g, decls |-> d]

\* the state after the pass was constructed, for the modules built from K
InitOver(K) ==
  /\ mainShape \in {"defined", "declared", "absent"}
  /\ _nosym \in BOOLEAN
  /\ \E n \in 0..MaxInstrs : \E ks \in [1..n -> K] : \E cut \in 0..n :
       /\ mainShape # "defined" => cut = 0
       /\ LET km == SubSeq(ks, 1, cut)
              kf == SubSeq(ks, cut + 1, n)
              bm == IF mainShape = "defined" THEN Build(km, 1, ConstOp(1, "i32")) ELSE <<>>
              bf == Build(kf, Len(bm) + 1, ConstOp(1, "i32"))
          IN /\ body = [fn \in FuncNames |-> IF fn = "main" THEN bm ELSE bf]
             /\ nextId = Len(bm) + Len(bf) + 1
  /\ decls = {KindOf(k).callee : k \in {h \in K : KindOf(h).decl}}
               \cup (IF mainShape = "declared" THEN {<<"main">>} ELSE {})
  /\ globals = << [tag |-> "orig", ty |-> "i32"] >>
  /\ _vms = FALSE
  /\ _size_t_Ty = Null
  /\ added_globals = [t \in {} |-> 0]
  /\ removed_calls = {}
  /\ errs = <<>>
  /\ pc = "idle" /\ F = "f" /\ I = End /\ ins = End /\ modified = FALSE
  /\ run = 1 /\ scanned = {} /\ ret = [fn \in FuncNames |-> FALSE]
  /\ requested = {}
  /\ elim = {}
  /\ pre = << Snapshot(body, globals, decls) >>
  /\ start = <<>>
  /\ visited = <<>>

Init == InitOver(Kinds)

\* mutant: the flag returned by the scan is not set to false at its start
Begin_stale(fn) ==
  /\ pc = "idle"
  /\ fn \in Defined \ scanned
  /\ F' = fn
  /\ I' = inst_begin(body[fn])
  /\ ins' = End
  /\ pc' = "loop"
  /\ start' = [i \in 1..Len(body[fn]) |-> body[fn][i].id]
  /\ visited' = <<>>
  /\ UNCHANGED <<mainShape, body, decls, globals, nextId, _nosym, _vms, _size_t_Ty,
                 added_globals, removed_calls, errs, modified, run, scanned, ret,
                 requested, elim, pre>>

\* mutant: the cache of globals is emptied for every function
Begin_freshCache(fn) ==
  /\ pc = "idle"
  /\ fn \in Defined \ scanned
  /\ F' = fn
  /\ I' = inst_begin(body[fn])
  /\ ins' = End
  /\ modified' = FALSE
  /\ pc' = "loop"
  /\ added_globals' = [t \in {} |-> 0]
  /\ start' = [i \in 1..Len(body[fn]) |-> body[fn][i].id]
  /\ visited' = <<>>
  /\ UNCHANGED <<mainShape, body, decls, globals, nextId, _nosym, _vms, _size_t_Ty,
                 removed_calls, errs, run, scanned, ret, requested,
                 elim, pre>>

\* the pass manager calls runOnFunction(F) for a function not yet scanned
Begin(fn) ==
  /\ pc = "idle"
  /\ fn \in Defined \ scanned
  /\ F' = fn
  /\ I' = inst_begin(body[fn])
  /\ ins' = End
  /\ modified' = FALSE
  /\ pc' = "loop"
  /\ start' = [i \in 1..Len(body[fn]) |-> body[fn][i].id]
  /\ visited' = <<>>
  /\ UNCHANGED <<mainShape, body, decls, globals, nextId, _nosym, _vms, _size_t_Ty,
                 added_globals, removed_calls, errs, run, scanned, ret, requested,
                 elim, pre>>

\* one iteration of the loop that ends in `continue` or does nothing
Skip ==
  /\ pc = "loop"
  /\ I # End
  /\ Skips(PassState, InstOf(body[F], I))
  /\ ins' = I
  /\ I' = Advance(body[F], I)
  /\ visited' = Append(visited, I)
  /\ UNCHANGED <<mainShape, body, decls, globals, nextId, _nosym, _vms, _size_t_Ty,
                 added_globals, removed_calls, errs, pc, F, modified, run, scanned,
                 ret, requested, elim, pre, start>>

\* one iteration for a call to an undefined function, up to line 298
Replace ==
  /\ pc = "loop"
  /\ I # End
  /\ LET CI == InstOf(body[F], I) IN
     /\ ~Skips(PassState, CI)
     /\ ins' = I
     /\ I' = Advance(body[F], I)
     /\ \E ub \in {"crash", "lost"} :
          LET first == Reports(removed_calls, CI.callee)
              st == Substitute(PassState, CI, _nosym, ub)
              sub == IF CI.ty = Void THEN NoValue
                     ELSE IF _nosym THEN NullValue(CI.ty) ELSE InstOp(st.result)
          IN /\ removed_calls' = removed_calls \cup {CI.callee}
             /\ errs' = IF first
                         THEN Append(errs, [callee |-> CI.callee,
                                            msg |-> Message(CI.ty, _nosym),
                                            run |-> run, at |-> CI.id])
                         ELSE errs
             /\ body' = st.body
             /\ decls' = st.decls
             /\ globals' = st.globals
             /\ nextId' = st.nextId
             /\ _vms' = st._vms
             /\ _size_t_Ty' = st._size_t_Ty
             /\ added_globals' = st.added_globals
             /\ requested' = st.requested
             /\ pc' = IF st.status = "fatal" THEN "fatal" ELSE "erase"
             /\ elim' = IF st.status = "fatal" THEN elim
                         ELSE elim \cup {[id |-> CI.id, callee |-> CI.callee,
                                          ty |-> CI.ty, run |-> run, fn |-> F,
                                          uses |-> UsesIn(body[F], CI.id),
                                          sub |-> sub, erased |-> FALSE,
                                          seq |-> Cardinality(elim) + 1]}
  /\ visited' = Append(visited, I)
  /\ UNCHANGED <<mainShape, _nosym, F, modified, run, scanned, ret, pre, start>>

\* CI->eraseFromParent(); modified = true
Erase ==
  /\ pc = "erase"
  /\ body' = [body EXCEPT ![F] = eraseFromParent(@, ins)]
  /\ modified' = TRUE
  /\ pc' = "loop"
  /\ elim' = {IF e.id = ins THEN [e EXCEPT !.erased = TRUE] ELSE e : e \in elim}
  /\ UNCHANGED <<mainShape, decls, globals, nextId, _nosym, _vms, _size_t_Ty,
                 added_globals, removed_calls, errs, F, I, ins, run, scanned, ret,
                 requested, pre, start, visited>>

\* I == E: return modified
Return ==
  /\ pc = "loop"
  /\ I = End
  /\ ret' = [ret EXCEPT ![F] = modified]
  /\ scanned' = scanned \cup {F}
  /\ pc' = "idle"
  /\ UNCHANGED <<mainShape, body, decls, globals, nextId, _nosym, _vms, _size_t_Ty,
                 added_globals, removed_calls, errs, F, I, ins, modified, run,
                 requested, elim, pre, start, visited>>

\* mutant: the set of reported callees is a field of the pass instance
NewRun_reset ==
  /\ pc = "idle"
  /\ scanned = Defined
  /\ run < MaxRuns
  /\ run' = run + 1
  /\ scanned' = {}
  /\ _vms' = FALSE
  /\ _size_t_Ty' = Null
  /\ added_globals' = [t \in {} |-> 0]
  /\ requested' = {}
  /\ removed_calls' = {}
  /\ pre' = Append(pre, Snapshot(body, globals, decls))
  /\ UNCHANGED <<mainShape, body, decls, globals, nextId, _nosym,
                 errs, pc, F, I, ins, modified, ret, elim, start, visited>>

\* every function was scanned; a fresh instance of the same pass is run over
\* the output (removed_calls is static and stays)
NewRun ==
  /\ pc = "idle"
  /\ scanned = Defined
  /\ run < MaxRuns
  /\ run' = run + 1
  /\ scanned' = {}
  /\ _vms' = FALSE
  /\ _size_t_Ty' = Null
  /\ added_globals' = [t \in {} |-> 0]
  /\ requested' = {}
  /\ pre' = Append(pre, Snapshot(body, globals, decls))
  /\ UNCHANGED <<mainShape, body, decls, globals, nextId, _nosym, removed_calls,
                 errs, pc, F, I, ins, modified, ret, elim, start, visited>>

Next ==
  \/ \E fn \in FuncNames : Begin(fn)
  \/ Skip
  \/ Replace
  \/ Erase
  \/ Return
  \/ NewRun

Spec == Init /\ [][Next]_vars

\* the same pass over the modules built from SkipKinds
InitSkip == InitOver(SkipKinds)
SpecSkip == InitSkip /\ [][Next]_vars

\* ------------------------------------------------------------------ claims
\* notions the properties are stated with
RunComplete == pc = "idle" /\ scanned = Defined
Symbolic == ~_nosym
Instrs(b) == {b[i] : i \in 1..Len(b)}
AllInstrs == UNION {Instrs(body[fn]) : fn \in FuncNames}
AllowListed(name) ==
  \/ name \in {<<"nondet_int">>, <<"klee_int">>}
  \/ name \in {leave_calls[i] : i \in 1..Len(leave_calls)}
  \/ (name # <<>> /\ Head(name) = "__VERIFIER_")
\* a call whose resolved callee has no body, is no intrinsic, is not allow-listed
UndefinedCall(x, declared) ==
  /\ x.op = "call"
  /\ x.callee \in declared
  /\ ~(x.callee # <<>> /\ Head(x.callee) = "llvm.")
  /\ ~AllowListed(x.callee)
NondetGlobals == {g \in 1..Len(globals) : globals[g].tag = "nondet_gl_undef"}
\* the globals the current run added to the module
NewGlobals == {g \in 1..Len(globals) : g > Len(pre[run].globals)}
\* the make-symbolic calls of main that initialise global g
InitCalls(g) ==
  {x \in Instrs(body["main"]) :
     /\ x.op = "call" /\ x.callee = <<"__VERIFIER_", "make_symbolic">>
     /\ \E c \in Instrs(body["main"]) :
          c.op = "cast" /\ c.args = <<GlobOp(g)>> /\ x.args[1] = InstOp(c.id)}
\* the ids of list b that are also in list a, in the order of b
Surviving(b, a) == SelectSeq([i \in 1..Len(b) |-> b[i].id], LAMBDA id : id \in Ids(a))

\* C1: once runOnFunction was applied to every function of the module, no
\* call to an undefined, non-intrinsic, not allow-listed callee is left in
\* any function, under either policy.
NoLeftoverUndefinedCalls ==
  RunComplete => \A x \in AllInstrs : ~UndefinedCall(x, decls)

\* C1 witness: a complete Symbolic run that erased a non-void call of main,
\* so instructions were inserted into main while main was scanned.
NoLeftoverWitness ==
  /\ RunComplete /\ Symbolic /\ run = 1
  /\ \E e \in elim : e.fn = "main" /\ e.ty # Void /\ e.erased
  /\ \E e \in elim : e.fn = "f" /\ e.erased

\* C2 as stated: after the run every allow-listed call site is present, in
\* the same order among the surviving original instructions, with the same
\* callee and the same argument operands as before the run.
AllowListedCallsUntouched ==
  RunComplete =>
    \A fn \in FuncNames : \A x \in Instrs(pre[run].body[fn]) :
      /\ Surviving(body[fn], pre[run].body[fn]) = Surviving(pre[run].body[fn], body[fn])
      /\ (x.op = "call" /\ AllowListed(x.callee)) => x \in Instrs(body[fn])

\* C2 amended: every allow-listed call site stays in its function with the
\* same callee and result type, the surviving original instructions keep
\* their order, and each argument operand is the one it had before the run,
\* unless that operand was the result of an erased call: then it is the
\* substitute of that call.
AllowListedCallsKept ==
  \A fn \in FuncNames :
    /\ Surviving(body[fn], pre[run].body[fn]) = Surviving(pre[run].body[fn], body[fn])
    /\ \A x \in Instrs(pre[run].body[fn]) :
         (x.op = "call" /\ AllowListed(x.callee)) =>
           \E y \in Instrs(body[fn]) :
             /\ y.id = x.id /\ y.op = x.op /\ y.callee = x.callee /\ y.ty = x.ty
             /\ Len(y.args) = Len(x.args)
             /\ \A j \in 1..Len(x.args) :
                  \/ y.args[j] = x.args[j]
                  \/ \E e \in elim : /\ x.args[j] = InstOp(e.id)
                                      /\ e.run = run
                                      /\ y.args[j] = e.sub

\* C2 witness: the run is complete and an allow-listed call that took the
\* result of an erased call as its argument is still in its function.
AllowListedWitness ==
  /\ RunComplete /\ run = 1
  /\ \E e \in elim : \E u \in e.uses : \E y \in Instrs(body[e.fn]) :
       e.erased /\ y.id = u[1] /\ y.op = "call" /\ AllowListed(y.callee)

\* C3: during a Symbolic run the module holds as many nondeterministic
\* globals created by this run as there are distinct types requested so far,
\* and all loads that stand for erased calls of one type read one global.
PerTypeCacheCardinality ==
  Symbolic =>
    /\ Cardinality(NondetGlobals \cap NewGlobals) = Cardinality(requested)
    /\ \A t \in requested : t \in DOMAIN added_globals
    /\ \A e1, e2 \in elim : \A x1, x2 \in AllInstrs :
         (e1.run = run /\ e2.run = run /\ e1.ty # Void /\ e1.ty = e2.ty
            /\ x1.id = e1.sub.n /\ x2.id = e2.sub.n)
         => (x1.args = x2.args /\ x1.args = <<GlobOp(added_globals[e1.ty])>>)

\* C3 witness: two call sites of one type, in different functions, were
\* erased in a Symbolic run.
PerTypeCacheWitness ==
  /\ Symbolic
  /\ \E e1, e2 \in elim :
       e1.fn # e2.fn /\ e1.ty = e2.ty /\ e1.ty # Void /\ e1.erased /\ e2.erased

\* the make-symbolic calls anywhere in the module that initialise global g
InitCallsAnywhere(g) ==
  {x \in AllInstrs :
     /\ x.op = "call" /\ x.callee = <<"__VERIFIER_", "make_symbolic">>
     /\ \E c \in AllInstrs :
          c.op = "cast" /\ c.args = <<GlobOp(g)>> /\ x.args[1] = InstOp(c.id)}
\* x stands before every instruction main had when the process started
BeforeOriginals(x) ==
  \A o \in Instrs(body["main"]) :
    o.id \in Ids(pre[1].body["main"]) =>
      IndexOf(body["main"], x.id) < IndexOf(body["main"], o.id)

\* C4: when a run is complete, every nondeterministic global has exactly one
\* make-symbolic call in the module, that call is in main, and it stands
\* before every instruction main had before the run.
SingleInitialization ==
  RunComplete =>
    \A g \in NondetGlobals :
      /\ Cardinality(InitCallsAnywhere(g)) = 1
      /\ InitCallsAnywhere(g) = InitCalls(g)
      /\ \A x \in InitCalls(g) : BeforeOriginals(x)

\* C4 where main has a body
SingleInitializationDefinedMain ==
  mainShape = "defined" => SingleInitialization

\* C5: every operand that referred to the result of an eliminated non-void
\* call refers to the substitute (the zero of the type under Zero, the load
\* inserted in the same function under Symbolic) for as long as its
\* instruction exists, and no operand of any instruction ever refers to an
\* instruction that is not in the same function any more.
UseBeforeErase ==
  /\ \A e \in elim :
       e.ty # Void =>
         /\ IF _nosym THEN e.sub = [k |-> "zero", n |-> 0, ty |-> e.ty]
            ELSE /\ e.sub.k = "inst"
                 /\ \E l \in Instrs(body[e.fn]) :
                      l.id = e.sub.n /\ l.op = "load" /\ l.ty = e.ty
         /\ \A u \in e.uses : \A x \in Instrs(body[e.fn]) :
              x.id = u[1] => x.args[u[2]] = e.sub
         /\ e.erased <=> e.id \notin Ids(body[e.fn])
  /\ \A fn \in FuncNames : \A x \in Instrs(body[fn]) : \A j \in 1..Len(x.args) :
       x.args[j].k = "inst" => x.args[j].n \in Ids(body[fn])

\* C5 witness: a non-void call with two uses was erased and both users are
\* still in the function.
UseBeforeEraseWitness ==
  \E e \in elim :
    /\ e.erased /\ e.ty # Void /\ Cardinality(e.uses) >= 2
    /\ \A u \in e.uses : u[1] \in Ids(body[e.fn])

\* C6: in a run of the pass over the output of an earlier run nothing in
\* the module changes, every runOnFunction returns false, no call is
\* rewritten and the new pass instance creates no global.
SecondRunChangesNothing ==
  run >= 2 =>
    /\ body = pre[run].body
    /\ globals = pre[run].globals
    /\ decls = pre[run].decls
    /\ pc \in {"idle", "loop"}
    /\ pc = "loop" => modified = FALSE
    /\ \A fn \in scanned : ret[fn] = FALSE
    /\ DOMAIN added_globals = {}
    /\ \A e \in elim : e.run < run

\* C6 witness: a second Symbolic run is complete over a module in which the
\* first run injected a make-symbolic call and a load.
SecondRunWitness ==
  /\ run = 2 /\ RunComplete /\ Symbolic /\ "main" \in scanned
  /\ \E g \in NondetGlobals : InitCalls(g) # {}
  /\ \E x \in AllInstrs : x.op = "load"

\* C7: under the Symbolic policy every eliminated non-void call of type T
\* has, right before its position, a load of a nondeterministic global of
\* type T, all such loads of one type read one global, and that global has
\* exactly one make-symbolic call.
SharedSubstitution ==
  Symbolic =>
    \A e \in elim :
      e.ty # Void =>
        \E l \in Instrs(body[e.fn]) : \E g \in NondetGlobals :
          /\ l.id = e.sub.n /\ l.op = "load" /\ l.ty = e.ty
          /\ l.args = <<GlobOp(g)>> /\ globals[g].ty = e.ty
          /\ ~e.erased =>
               IndexOf(body[e.fn], l.id) + 1 = IndexOf(body[e.fn], e.id)
          /\ \A e2 \in elim : \A l2 \in AllInstrs :
               (e2.ty = e.ty /\ l2.id = e2.sub.n) => l2.args = l.args
          /\ Cardinality(InitCallsAnywhere(g)) = 1

\* C7 where main has a body
SharedSubstitutionDefinedMain ==
  mainShape = "defined" => SharedSubstitution

\* the operand of x, an instruction the module had when the process started,
\* is what it was, or the zero of the type of the erased call it referred to
ZeroRedirected(x, y) ==
  /\ y.op = x.op /\ y.callee = x.callee /\ y.ty = x.ty /\ Len(y.args) = Len(x.args)
  /\ \A j \in 1..Len(x.args) :
       \/ y.args[j] = x.args[j] /\ ~\E e \in elim : x.args[j] = InstOp(e.id)
       \/ \E e \in elim : /\ x.args[j] = InstOp(e.id)
                           /\ y.args[j] = [k |-> "zero", n |-> 0, ty |-> e.ty]

\* C8: under the Zero policy every use of an eliminated non-void call is the
\* zero of the call's type; the globals and the function declarations of
\* the module stay as they were (no make-symbolic hook), the cache stays
\* empty, and every function body is the original one without the erased
\* calls and with the redirected operands.
ZeroPolicyFrame ==
  _nosym =>
    /\ globals = pre[1].globals
    /\ decls = pre[1].decls
    /\ <<"__VERIFIER_", "make_symbolic">> \notin decls
    /\ ~_vms
    /\ DOMAIN added_globals = {}
    /\ \A fn \in FuncNames :
         /\ [i \in 1..Len(body[fn]) |-> body[fn][i].id]
              = SelectSeq([i \in 1..Len(pre[1].body[fn]) |-> pre[1].body[fn][i].id],
                          LAMBDA id : ~\E e \in elim : e.id = id /\ e.erased)
         /\ \A y \in Instrs(body[fn]) : \E x \in Instrs(pre[1].body[fn]) :
              x.id = y.id /\ ZeroRedirected(x, y)

\* C8 witness: under Zero a non-void call of main with a use was erased.
ZeroPolicyWitness ==
  /\ _nosym
  /\ \E e \in elim : e.fn = "main" /\ e.ty # Void /\ e.erased /\ e.uses # {}

\* C9: the iteration for an eligible call without a result changes nothing
\* but the position of the scan and the diagnostics (no instruction, global,
\* declaration or cache entry is created), and the erase that follows
\* removes that call and nothing else.
VoidCallsOnlyErased ==
  [][/\ \A x \in Instrs(body[F]) :
          (pc = "loop" /\ I = x.id /\ x.ty = "void" /\ UndefinedCall(x, decls)) =>
            /\ pc' = "erase" /\ ins' = x.id
            /\ body' = body /\ globals' = globals /\ decls' = decls
            /\ nextId' = nextId /\ added_globals' = added_globals /\ _vms' = _vms
     /\ \A x \in Instrs(body[F]) :
          (pc = "erase" /\ ins = x.id /\ x.ty = "void") =>
            /\ pc' = "loop"
            /\ body' = [body EXCEPT ![F] = SelectSeq(@, LAMBDA y : y # x)]
            /\ Len(body'[F]) = Len(body[F]) - 1
            /\ globals' = globals /\ decls' = decls
            /\ nextId' = nextId /\ added_globals' = added_globals /\ _vms' = _vms
    ]_vars

\* C9 witness: a call without a result was erased in a Symbolic run.
VoidCallsWitness ==
  Symbolic /\ \E e \in elim : e.ty = "void" /\ e.erased

\* the lines of run r about callee c
LinesOf(r, c) == {i \in 1..Len(errs) : errs[i].run = r /\ errs[i].callee = c}

FreshInstance == run >= 2 /\ pc = "idle" /\ scanned = {}

OrigCalls(fn) == {x \in Instrs(pre[1].body[fn]) : x.op \in {"call", "asm", "icall"}}
OrigUndefined(fn) == {x \in OrigCalls(fn) : UndefinedCall(x, pre[1].decls)}
ExpectedSurvivors(fn) == {x.id : x \in OrigCalls(fn) \ OrigUndefined(fn)}
ExpectedTypes ==
  IF _nosym THEN {}
  ELSE {x.ty : x \in {y \in UNION {OrigUndefined(fn) : fn \in FuncNames} : y.ty # "void"}}
ExpectedInitCalls == IF mainShape = "defined" THEN 1 ELSE 0
\* operand now of an instruction of fn is what operand was is expected to
\* have become
ExpectedOperand(fn, was, now) ==
  IF \E c \in OrigUndefined(fn) : was = InstOp(c.id)
  THEN \E c \in OrigUndefined(fn) :
         /\ was = InstOp(c.id)
         /\ IF _nosym THEN now = [k |-> "zero", n |-> 0, ty |-> c.ty]
            ELSE \E l \in Instrs(body[fn]) : \E g \in NondetGlobals :
                   /\ now = InstOp(l.id) /\ l.op = "load" /\ l.ty = c.ty
                   /\ l.args = <<GlobOp(g)>> /\ globals[g].ty = c.ty
  ELSE now = was

\* C12: when the first run is complete, the surviving call sites, the
\* nondeterministic globals (one for each type of an eliminated non-void
\* call), the number of make-symbolic calls of each global (one when main
\* has a body) and the substitute each redirected operand refers to are
\* those computed from the input module and the policy, whatever the order
\* in which the functions were scanned.
OrderIndependence ==
  (RunComplete /\ run = 1) =>
    /\ \A fn \in FuncNames :
         {x.id : x \in {y \in Instrs(body[fn]) :
                          y.op \in {"call", "asm", "icall"}
                            /\ y.id \in Ids(pre[1].body[fn])}}
           = ExpectedSurvivors(fn)
    /\ {globals[g].ty : g \in NondetGlobals} = ExpectedTypes
    /\ Cardinality(NondetGlobals) = Cardinality(ExpectedTypes)
    /\ \A g \in NondetGlobals : Cardinality(InitCallsAnywhere(g)) = ExpectedInitCalls
    /\ \A fn \in FuncNames : \A x \in Instrs(pre[1].body[fn]) :
         \A y \in Instrs(body[fn]) :
           y.id = x.id =>
             /\ Len(y.args) = Len(x.args)
             /\ \A j \in 1..Len(x.args) : ExpectedOperand(fn, x.args[j], y.args[j])

\* C12 witness: the first Symbolic run is complete, main was scanned before
\* f, both functions lost a non-void call of one type and f lost a call of a
\* type main did not ask for.
OrderIndependenceWitness ==
  /\ RunComplete /\ run = 1 /\ Symbolic /\ mainShape = "defined" /\ F = "f"
  /\ \E e1, e2, e3 \in elim :
       /\ e1.fn = "main" /\ e2.fn = "f" /\ e3.fn = "f"
       /\ e1.ty = e2.ty /\ e1.ty # "void" /\ e3.ty \notin {"void", e1.ty}

\* C12 witness, the other order: f was scanned before main.
OrderIndependenceOtherOrder ==
  /\ RunComplete /\ run = 1 /\ Symbolic /\ mainShape = "defined" /\ F = "main"
  /\ \E e1, e2 \in elim :
       e1.fn = "main" /\ e2.fn = "f" /\ e1.ty = e2.ty /\ e1.ty # "void"

\* the call sites of the input module that lines 255-277 classify as skipped
\* for a reason other than the allow-list
SkippedSite(x) ==
  \/ x.op = "asm"
  \/ x.op = "icall"
  \/ x.op = "call" /\ Len(x.callee) > 0 /\ x.callee[1] = "llvm."
  \/ x.op = "call" /\ x.callee \notin pre[1].decls

\* C13: a call through inline assembly, an indirect call, a call to an
\* intrinsic and a call to a function with a body that were in the input
\* module are still in their function, unchanged in callee and type, and
\* every surviving operand that referred to the result of such a call still
\* refers to it, in every state of every run and under either policy.
SkippedCallsUntouched ==
  \A fn \in FuncNames : \A x \in Instrs(pre[1].body[fn]) :
    SkippedSite(x) =>
      /\ \E y \in Instrs(body[fn]) :
           y.id = x.id /\ y.op = x.op /\ y.callee = x.callee /\ y.ty = x.ty
      /\ \A y \in Instrs(body[fn]) : \A z \in Instrs(pre[1].body[fn]) :
           y.id = z.id =>
             \A j \in 1..Len(z.args) :
               z.args[j] = InstOp(x.id) => y.args[j] = InstOp(x.id)

\* C13 witness: a run is complete in which a call was erased after two
\* skipped call sites of different kinds in the same function; the result of
\* the first is still used by the second and the result of the second was the
\* argument of the erased call.
SkippedCallsWitness ==
  /\ RunComplete
  /\ \E fn \in FuncNames : \E x1, x2 \in Instrs(pre[1].body[fn]) :
       /\ SkippedSite(x1) /\ SkippedSite(x2)
       /\ <<x1.op, x1.callee>> # <<x2.op, x2.callee>>
       /\ <<x2.id, 1>> \in UsesIn(body[fn], x1.id)
       /\ \E e \in elim :
            e.erased /\ e.fn = fn /\ <<e.id, 1>> \in UsesIn(pre[1].body[fn], x2.id)

\* the make-symbolic calls in the bodies b
SymbolicCallsOf(b) ==
  UNION {{x.id : x \in {y \in Instrs(b[fn]) : y.op = "call" /\ y.callee = MakeSymbolicName}} :
         fn \in FuncNames}

\* C14: under the Symbolic policy a step that rewrites a non-void call whose
\* type already has a global in the cache adds no global of any kind to the
\* module and no make-symbolic call.
CacheHitNoSideEffects ==
  [][(/\ pc = "loop" /\ pc' = "erase" /\ Symbolic
      /\ \E e \in elim' \ elim : e.ty # Void /\ Cached(added_globals, e.ty))
       => /\ globals' = globals
          /\ SymbolicCallsOf(body') = SymbolicCallsOf(body)
    ]_vars

\* a call of function fn was erased in the current run
ErasedIn(fn) == \E e \in elim : e.fn = fn /\ e.run = run /\ e.erased

\* C15: the value runOnFunction(F) returned is true exactly when a call of F
\* was erased during that invocation, whatever earlier invocations did to
\* main; during the scan the flag says whether a call of F was erased so far.
ReturnValueIffErased ==
  /\ \A fn \in scanned : ret[fn] = ErasedIn(fn)
  /\ pc = "loop" => modified = ErasedIn(F)

\* C15 witness: f was scanned first and returned true, its rewrite put a
\* make-symbolic call into main, and the later scan of main, which holds a
\* call site that is skipped, returned false.
ReturnValueWitness ==
  /\ RunComplete /\ F = "main" /\ Symbolic
  /\ ret["f"] /\ ~ret["main"]
  /\ \E g \in NondetGlobals : InitCalls(g) # {}
  /\ \E x \in Instrs(pre[run].body["main"]) : IsCallInst(x)
  /\ Len(body["main"]) > Len(pre[run].body["main"])

\* the scan of F stands at an eligible call with a result whose type has no
\* global in the cache
NeedsNewGlobal ==
  /\ pc = "loop" /\ I # End /\ Symbolic
  /\ LET CI == InstOf(body[F], I)
     IN ~Skips(PassState, CI) /\ CI.ty # Void /\ ~Cached(added_globals, CI.ty)

\* C16: in a module without main a step of the Symbolic policy that has to
\* create a global ends in the fatal state with every function body as it
\* was (no load inserted, the call not erased), and nothing happens after
\* the fatal state.
MissingMainIsFatal ==
  [][/\ (mainShape = "absent" /\ NeedsNewGlobal) => (pc' = "fatal" /\ body' = body)
     /\ pc # "fatal"
    ]_vars

\* C16 witness: the process stopped in a module without main, the call that
\* asked for the global is still in its function, no load exists, and the
\* global and its cache entry were already made.
MissingMainWitness ==
  /\ pc = "fatal" /\ mainShape = "absent" /\ Symbolic
  /\ ins \in Ids(body[F])
  /\ ~Skips(PassState, InstOf(body[F], ins))
  /\ \A x \in AllInstrs : x.op # "load"
  /\ NondetGlobals # {}
  /\ Cached(added_globals, InstOf(body[F], ins).ty)

\* C17: when main is declared without a body, a step of the Symbolic policy
\* that has to create a global ends in the fatal state with every function
\* body as it was, instead of going on with an insertion before an
\* instruction that does not exist.
EmptyMainIsFatal ==
  [][(mainShape = "declared" /\ NeedsNewGlobal) => (pc' = "fatal" /\ body' = body)]_vars

\* sequence a is the beginning of sequence b
IsPrefix(a, b) == Len(a) <= Len(b) /\ a = SubSeq(b, 1, Len(a))
ScanActive == pc \in {"loop", "erase"}

\* C18: the instructions the scan of F dereferenced are, in order and without
\* repetition, the first instructions F had when the scan began, and all of
\* them when the scan is over, so no instruction inserted during the scan is
\* among them; the iterator stands at the next of these instructions, which
\* is still in F, or at the end; the instruction about to be erased is in F
\* and is not the one the iterator stands at.
SingleVisit ==
  /\ IsPrefix(visited, start)
  /\ (ScanActive /\ I # End) =>
       /\ I \in Ids(body[F])
       /\ Len(visited) < Len(start)
       /\ IsPrefix(Append(visited, I), start)
  /\ (ScanActive /\ I = End) => visited = start
  /\ (pc = "idle" /\ F \in scanned) => visited = start
  /\ pc = "erase" => (ins \in Ids(body[F]) /\ ins # I /\ ins = visited[Len(visited)])

\* C18 witness: the scan of main is over; it erased main's first instruction
\* and another call, and the loads, the cast and the make-symbolic call it
\* put into main were not visited.
SingleVisitWitness ==
  /\ pc = "loop" /\ I = End /\ F = "main" /\ Symbolic
  /\ Len(start) >= 3
  /\ \E e1, e2 \in elim :
       /\ e1.id = start[1] /\ e1.erased /\ e1.ty # Void
       /\ e2.id # e1.id /\ e2.fn = "main" /\ e2.erased
  /\ \E x, y, z \in Instrs(body["main"]) :
       /\ x.op = "load" /\ y.op = "cast" /\ z.callee = MakeSymbolicName
       /\ {x.id, y.id, z.id} \cap Range(visited) = {}

\* the loads of main that read global g
LoadsOf(g) == {x \in Instrs(body["main"]) : x.op = "load" /\ x.args = <<GlobOp(g)>>}

\* C19: in every state of a run under the Symbolic policy each load of a
\* nondeterministic global in main stands after a make-symbolic call of that
\* global in main.
InitBeforeRead ==
  Symbolic =>
    \A g \in NondetGlobals : \A l \in LoadsOf(g) :
      \E x \in InitCalls(g) :
        IndexOf(body["main"], x.id) < IndexOf(body["main"], l.id)

\* C19 witness: the scan of main erased main's first instruction, a call
\* with a result, and then a call of another type, whose global was made
\* when a load of the first global was already in main; both loads are there.
InitBeforeReadWitness ==
  /\ Symbolic /\ F = "main" /\ pc = "loop"
  /\ \E e1, e2 \in elim :
       /\ e1.fn = "main" /\ e2.fn = "main" /\ e1.erased /\ e2.erased
       /\ e1.id = pre[run].body["main"][1].id
       /\ e1.seq < e2.seq
       /\ e1.ty # Void /\ e2.ty \notin {Void, e1.ty}
       /\ \E g1, g2 \in NondetGlobals :
            /\ globals[g1].ty = e1.ty /\ globals[g2].ty = e2.ty
            /\ LoadsOf(g1) # {} /\ LoadsOf(g2) # {}

TypeOK ==
  /\ pc \in {"idle", "loop", "erase", "fatal"}
  /\ run \in 1..MaxRuns
====
